---- MODULE Spec2Model ----
(***************************************************************************)
(* Model of the lichess-autobot controller (src/src/ui/main_window.py),    *)
(* its board widget (src/src/ui/chess_board.py), its NDJSON client         *)
(* (src/src/lichess/api_client.py) and its statistics store                *)
(* (src/src/database/db_manager.py).                                       *)
(*                                                                         *)
(* The program runs on one asyncio loop: every coroutine runs without      *)
(* interruption between two awaits.  A task is therefore a program counter *)
(* naming the await it is suspended in, and an action is the code between  *)
(* two awaits.  The tasks are the control-stream task (_run_event_stream), *)
(* the game-stream tasks (_run_game_stream, one per gameStart), the start  *)
(* task (_start_bot_async) and the stop task (_stop_bot_async).  Handlers  *)
(* are awaited inline by the task that reads the stream, so a handler's    *)
(* awaits are program counters of that task.                               *)
(*                                                                         *)
(* A chess.Board is represented by its move stack.  The rules of chess are *)
(* abstracted to two moves, a quiet move and a mate, whose legality        *)
(* depends on the position.                                                *)
(***************************************************************************)
EXTENDS Integers, Sequences, FiniteSets, TLC

None == "None"

\* Names of tasks: no task, the start task, the control-stream task; the
\* game-stream tasks are named by their slot 1..MaxStreams.
NoTask == 0
StartTask == 0 - 1
EsTask == 0 - 2

(* ----------------------------- bounds ---------------------------------- *)
MaxPly == 1          \* longest move list a game-stream record carries
MaxPlyBoard == 3     \* the same, in the board specification
MaxPlyScenario == 2  \* the same, in the end-to-end scenario
MaxStreams == 2      \* game-stream tasks that can be alive together
MaxGamesPlayed == 1  \* cap of the games_played counter
MaxPlayedStats == 2  \* the same, in the statistics specification
MaxSubmits == 1      \* cap of the log of make_move calls
MaxSubmitsResend == 2  \* the same, where a record is delivered again
MaxFails == 1        \* control-stream failures in a run of the controller
MaxFailsReconnect == 7  \* the same, in the reconnect specification
MaxBytes == 5        \* longest byte stream a _stream_ndjson call reads
MaxBytesQuiet == 2   \* the same, in the specification of a silent remote
MaxSilence == 1      \* seconds a remote stays silent during a read
MaxMoveNumber == 12  \* largest fullmove_number a move is timed at
SampleSteps == 2     \* random.random() takes the values 0, 1/2, ..., 1
MaxStarts == 3       \* _start_bot_async tasks created in a run

GameIds == {"g1", "g2"}
Colors == {"white", "black"}
\* The colour the server gives the bot in each game.
ColorOf(g) == IF g = "g1" THEN "white" ELSE "black"
Slots == 1..MaxStreams

(* --------------------------- chess.Board ------------------------------- *)
\* The two moves of the abstract game: "m" ends the game (mate), and it
\* is not legal in the initial position.
Moves == {"e", "m"}
\* self.game_board is None: no board, told apart from every position.
NoBoard == << None >>

Turn(b) == IF Len(b) % 2 = 0 THEN "white" ELSE "black"

IsGameOver(b) == Len(b) > 0 /\ b[Len(b)] = "m"

LegalMoves(b) ==
    IF IsGameOver(b) THEN {}
    ELSE IF Len(b) = 0 THEN Moves \ {"m"} ELSE Moves

RECURSIVE LegalListsOfLen(_)
LegalListsOfLen(n) ==
    IF n = 0 THEN {<< >>}
    ELSE UNION {{Append(l, m) : m \in LegalMoves(l)} : l \in LegalListsOfLen(n - 1)}

\* The move lists the server sends: every game of at most n plies.
MoveListsUpTo(n) == UNION {LegalListsOfLen(k) : k \in 0..n}

IsPrefix(a, b) == Len(a) <= Len(b) /\ SubSeq(b, 1, Len(a)) = a

(* ------------------------- ChessBoardWidget ---------------------------- *)
\* The loop of set_position_from_moves over move_list from index i on:
\* hist is self.move_history, temp is temp_board.
RECURSIVE ParseFrom(_, _, _, _)
ParseFrom(toks, i, hist, temp) ==
    IF i > Len(toks) THEN hist
    ELSE IF toks[i] \notin Moves THEN hist
    ELSE IF toks[i] \in LegalMoves(temp)
         THEN ParseFrom(toks, i + 1, Append(hist, toks[i]), Append(temp, toks[i]))
         ELSE ParseFrom(toks, i + 1, hist, temp)

\* A set_position_from_moves that keeps the old history instead of
\* clearing it (an incremental update).
SetPositionIncremental(old_history, moves_uci) ==
    ParseFrom(moves_uci, 1, old_history, << >>)

\* set_position_from_moves: the new self.move_history.
SetPositionFromMoves(old_history, moves_uci) ==
    ParseFrom(moves_uci, 1, << >>, << >>)

RECURSIVE PushAll(_, _)
PushAll(board, ms) ==
    IF ms = << >> THEN board
    ELSE PushAll(Append(board, Head(ms)), Tail(ms))

\* get_live_board: a new board with every move of the history pushed.
GetLiveBoard(history) == PushAll(<< >>, history)

(* ------------------------------ statuses ------------------------------- *)
AbortStatuses == {"aborted", "noStart"}
EndStatuses == {"mate", "resign", "stalemate", "timeout", "draw",
                "outoftime", "cheat", "variantEnd"}
OngoingStatuses == {"started", "created"}
TerminalStatuses == AbortStatuses \cup EndStatuses
VARIABLES
    \* MainWindow
    is_running, stop_after_game, current_game_id, our_color, game_board,
    engine, lichess_client,
    \* LichessClient._stopping
    stopping,
    \* ChessBoardWidget.move_history
    move_history,
    \* DatabaseManager: the statistics row and the game_history table
    stats, game_history,
    \* the tasks
    startPc, stopPc, esPc, reconnect_delay, gs, game_stream_task,
    seeks, seek_task,
    \* the server and what the program has sent or waited
    srv, cfg, esDelivered, waits, submitted, failBudget,
    \* the error last reported (db.log_error, db.log_warning, _show_error)
    \* and the requests _stop_bot_async has made for the game in flight
    last_report, stop_calls,
    \* one call of LichessClient._stream_ndjson, byte by byte
    rd,
    \* the time settings and the timing of one _maybe_make_move call
    plan,
    \* the Start button and the _start_bot_async tasks it has created
    boot

\* The variables of the controller, and those of the three parts of the
\* program that are specified on their own.
mainVars == <<is_running, stop_after_game, current_game_id, our_color,
              game_board, engine, lichess_client, stopping, move_history,
              stats, game_history, startPc, stopPc, esPc, reconnect_delay, gs,
              game_stream_task, seeks, seek_task, srv, cfg, last_report,
              stop_calls, esDelivered, waits, submitted, failBudget>>
auxVars == <<rd, plan, boot>>

vars == <<mainVars, auxVars>>

\* game_stream_task and seek_task name the task last created while it is not
\* done, and NoTask otherwise: the code uses them only under "not t.done()".
\* A slot whose task is done is NoStream again.
ctlVars == <<is_running, stop_after_game, current_game_id, our_color,
             game_board, engine, lichess_client, stopping>>
taskVars == <<startPc, stopPc, esPc, reconnect_delay, gs, game_stream_task,
              seeks, seek_task>>

\* A game id with no row in the game_history table.
NoRow == [color |-> None, result |-> None]

NoStream == [pc |-> "none", gid |-> None, ply |-> 0, sawTerminal |-> FALSE,
             req |-> None]

InitCommon ==
    /\ is_running = FALSE
    /\ stop_after_game = FALSE
    /\ current_game_id = None
    /\ our_color = None
    /\ game_board = NoBoard
    /\ engine = FALSE
    /\ lichess_client = FALSE
    /\ stopping = FALSE
    /\ move_history = << >>
    /\ stats = [games_played |-> 0, games_won |-> 0, games_lost |-> 0,
                games_drawn |-> 0]
    /\ game_history = [g \in GameIds |-> NoRow]
    /\ startPc = "idle"
    /\ stopPc = "none"
    /\ esPc = "none"
    /\ reconnect_delay = 1
    /\ gs = [s \in Slots |-> NoStream]
    /\ game_stream_task = NoTask
    /\ seeks = {}
    /\ seek_task = NoTask
    /\ srv = [g \in GameIds |-> "none"]
    /\ esDelivered = FALSE
    /\ waits = << >>
    /\ submitted = << >>
    /\ last_report = None
    /\ stop_calls = << >>

\* The parts specified on their own, at rest: no stream is read, no move is
\* timed, the Start button was not pressed.
NoRead == [pc |-> "none", stream |-> << >>, pos |-> 0, buffer |-> << >>,
           yielded |-> << >>, stopping |-> FALSE, idle |-> 0, sinceStop |-> 0,
           silence |-> 0, ended |-> None]
NoPlan == [pc |-> "none"]
NoBoot == [pc |-> "none"]
AuxIdle ==
    /\ rd = NoRead
    /\ plan = NoPlan
    /\ boot = NoBoot

\* What the environment does in a run: the games it starts, the move lists
\* and the final statuses it sends, the game streams alive together, and
\* how often streams fail, games are counted and moves are sent.
Config(games, ply, statuses, streams, fails, played, submits) ==
    [games |-> games, maxPly |-> ply, endStatuses |-> statuses,
     maxStreams |-> streams, maxFails |-> fails, maxPlayed |-> played,
     maxSubmits |-> submits]

\* One game, delivered again after a reconnect, with up to MaxStreams game
\* streams alive together.
Init ==
    /\ InitCommon
    /\ AuxIdle
    /\ cfg = Config({"g1"}, MaxPly, {"resign", "aborted"}, MaxStreams, MaxFails,
                    MaxGamesPlayed, MaxSubmits)
    /\ failBudget = cfg.maxFails

\* Two games, one after the other, that end in every way the statistics
\* tell apart.
InitStats ==
    /\ InitCommon
    /\ AuxIdle
    /\ cfg = Config(GameIds, 0, {"resign", "aborted", "noStart"}, 1, MaxFails,
                    MaxPlayedStats, MaxSubmits)
    /\ failBudget = cfg.maxFails

\* One game with move lists of up to MaxPlyBoard plies.
InitBoard ==
    /\ InitCommon
    /\ AuxIdle
    /\ cfg = Config({"g1"}, MaxPlyBoard, {"resign", "aborted"}, 1, MaxFails,
                    MaxGamesPlayed, MaxSubmits)
    /\ failBudget = cfg.maxFails

\* One game and a control stream that fails up to MaxFailsReconnect times.
InitReconnect ==
    /\ InitCommon
    /\ AuxIdle
    /\ cfg = Config({"g1"}, MaxPly, {"resign", "aborted"}, 1,
                    MaxFailsReconnect, MaxGamesPlayed, MaxSubmits)
    /\ failBudget = cfg.maxFails

\* One game on one game stream, with a stop at any moment of it.
InitStop ==
    /\ InitCommon
    /\ AuxIdle
    /\ cfg = Config({"g1"}, MaxPly, {"resign", "aborted"}, 1, MaxFails,
                    MaxGamesPlayed, MaxSubmits)
    /\ failBudget = cfg.maxFails

\* One game that ends in a draw or is aborted, with records and events that
\* can be delivered again.
InitDraw ==
    /\ InitCommon
    /\ AuxIdle
    /\ cfg = Config({"g1"}, MaxPly, {"draw", "aborted"}, 1, MaxFails,
                    MaxPlayedStats, MaxSubmitsResend)
    /\ failBudget = cfg.maxFails

\* One game played as white that ends in a mate.
InitScenario ==
    /\ InitCommon
    /\ AuxIdle
    /\ cfg = Config({"g1"}, MaxPlyScenario, {"mate"}, MaxStreams, MaxFails,
                    MaxPlayedStats, MaxSubmitsResend)
    /\ failBudget = cfg.maxFails

Min(a, b) == IF a < b THEN a ELSE b

(* ------------------------------- seeks --------------------------------- *)
\* A handler returned to _stream_ndjson of a game stream: the read loop
\* goes on unless the stop flag is set.
GsAfterHandler == IF stopping THEN "done" ELSE "read"

\* _seek_game up to the await of its seek task: TRUE when a seek is made.
SeekIssued == is_running /\ lichess_client

\* The game-stream tasks once the seek awaited by task a is done (its
\* create_seek returned, raised, or was cancelled and returned False):
\* _seek_game returns to _on_game_aborted, which returns.
GsResumed(g, a) ==
    IF a \in DOMAIN g /\ g[a].pc = "abort_seek"
    THEN [g EXCEPT ![a] = IF GsAfterHandler = "done" THEN NoStream
                          ELSE [@ EXCEPT !.pc = GsAfterHandler]]
    ELSE g

\* self.game_stream_task once the tasks are g.
StreamTaskIn(g) ==
    IF game_stream_task # NoTask /\ g[game_stream_task].pc = "none"
    THEN NoTask ELSE game_stream_task

(* ---------------------------- start task ------------------------------- *)
\* _on_start_bot: the Start button is pressed.
OnStartBot ==
    /\ startPc = "idle"
    /\ stop_after_game' = FALSE
    /\ startPc' = "engine_start"
    /\ UNCHANGED <<is_running, current_game_id, our_color, game_board, engine,
                   lichess_client, stopping, move_history, stats, game_history,
                   stopPc, esPc, reconnect_delay, gs, game_stream_task, seeks,
                   seek_task, srv, cfg, auxVars, last_report, stop_calls,
                   esDelivered, waits, submitted, failBudget>>

\* The except clause of _start_bot_async: the failure is logged and shown,
\* and _cleanup runs: no task exists yet, the engine and the client are
\* released and the state is reset.
StartFailed ==
    /\ last_report' = "Failed to start bot"
    /\ engine' = FALSE
    /\ lichess_client' = FALSE
    /\ current_game_id' = None
    /\ our_color' = None
    /\ game_board' = NoBoard
    /\ is_running' = FALSE
    /\ stop_after_game' = FALSE
    /\ startPc' = "failed"

\* A start that goes on to get_account after engine.start() raised.
AfterEngineStartAlways(ok) == "account"

\* await self.engine.start(): the next step of _start_bot_async.
AfterEngineStart(ok) == IF ok THEN "account" ELSE "failed"

\* _start_bot_async up to get_account: engine.start() returns or raises.
StartEngine(ok) ==
    /\ startPc = "engine_start"
    /\ IF AfterEngineStart(ok) = "account"
       THEN /\ engine' = TRUE
            /\ lichess_client' = TRUE
            /\ startPc' = "account"
            /\ UNCHANGED <<is_running, stop_after_game, current_game_id,
                           our_color, game_board, last_report>>
       ELSE StartFailed
    /\ UNCHANGED <<stopping, move_history, stats, game_history, stopPc, esPc,
                   reconnect_delay, gs, game_stream_task, seeks, seek_task,
                   srv, cfg, auxVars, stop_calls, esDelivered, waits,
                   submitted, failBudget>>

\* _start_bot_async after get_account: the bot is running, the control
\* stream task is created and the first seek is made by _seek_game.  The
\* start task then only awaits that seek and runs no code after it.
StartAccount(ok) ==
    /\ startPc = "account"
    /\ IF ok
       THEN /\ is_running' = TRUE
            /\ esPc' = "loop"
            /\ seeks' = seeks \cup {StartTask}
            /\ seek_task' = StartTask
            /\ startPc' = "done"
            /\ UNCHANGED <<stop_after_game, current_game_id, our_color,
                           game_board, engine, lichess_client, last_report>>
       ELSE /\ StartFailed
            /\ UNCHANGED <<esPc, seeks, seek_task>>
    /\ UNCHANGED <<stopping, move_history, stats, game_history, stopPc,
                   reconnect_delay, gs, game_stream_task, srv, cfg, auxVars,
                   stop_calls, esDelivered, waits, submitted, failBudget>>

(* ------------------------ _run_event_stream ---------------------------- *)
\* reconnect_delay = min(reconnect_delay * 2, max_reconnect_delay)
max_reconnect_delay == 30

\* A backoff that doubles without a cap.
NextDelayUncapped(d) == d * 2

NextDelay(d) == Min(d * 2, max_reconnect_delay)

\* stream_events returned: sleep and reconnect if the bot is running,
\* otherwise the while test ends the task.
EsAfterReturn(running) == IF running THEN "backoff" ELSE "done"

\* A control-stream error that ends _run_event_stream.
EsErrorIsFatal(running) == "done"

\* stream_events raised: the except Exception clause.
EsAfterException(running) == IF running THEN "backoff" ELSE "done"

\* The top of the read loop of _stream_ndjson of the control stream, "while
\* not self._stopping": the next chunk is awaited, or stream_events returns.
\* The stop flag is set only by a stop, which clears is_running first.
EsAfterHandler == IF stopping THEN EsAfterReturn(is_running) ELSE "read"

\* A line was handled and the inner loop "while b'\n' in buffer" goes on:
\* when the buffer holds another complete line (more) that line is next,
\* with no test of the stop flag; otherwise the top of the read loop.
EsNextLine(more) == IF more /\ stopping THEN "buffered" ELSE EsAfterHandler

\* The control-stream task awaits a chunk, or has a line in its buffer.
EsAtLine == esPc \in {"read", "buffered"}

\* while self.is_running that goes on whatever the flag is.
EsWhileAlways(running) == "connecting"

\* while self.is_running: the next stream_events call, or the end.
EsWhile(running) == IF running THEN "connecting" ELSE "done"

\* The control-stream task moves to p; entering the backoff it starts
\* asyncio.sleep(reconnect_delay).
EsGoto(p) ==
    /\ esPc' = p
    /\ waits' = IF p = "backoff" THEN Append(waits, reconnect_delay) ELSE waits

\* A handler of the control stream returns to _stream_ndjson.
EsReturn == \E more \in BOOLEAN : EsGoto(EsNextLine(more))

\* How a stream ends while it is read.
StreamEndCauses == {"closed", "client_error", "error"}

\* What the consumer of _stream_ndjson sees when the stream ends: an empty
\* chunk and an aiohttp.ClientError both leave the read loop by break, any
\* other exception leaves the generator.
EndSignal(cause) == IF cause = "error" THEN "raised" ELSE "returned"

\* stream_events ended with the signal sig: _run_event_stream logs it when
\* the bot is running, and sleeps before the next call.
EsEnd(sig) ==
    /\ EsGoto(IF sig = "raised" THEN EsAfterException(is_running)
              ELSE EsAfterReturn(is_running))
    /\ last_report' = IF ~is_running THEN last_report
                      ELSE IF sig = "raised" THEN "Event stream error"
                      ELSE "Event stream ended"

\* The task starts: the first while test.
EsLoop ==
    /\ esPc = "loop"
    /\ EsGoto(EsWhile(is_running))
    /\ UNCHANGED <<ctlVars, move_history, stats, game_history, startPc, stopPc,
                   reconnect_delay, gs, game_stream_task, seeks, seek_task,
                   srv, cfg, auxVars, last_report, stop_calls, esDelivered,
                   submitted, failBudget>>

\* stream_events opens the stream: status 200, or an error response or a
\* connection error (raised).
EsConnect(ok) ==
    /\ esPc = "connecting"
    /\ IF ok /\ lichess_client
       THEN /\ EsGoto(EsAfterHandler)
            /\ esDelivered' = FALSE
            /\ UNCHANGED <<failBudget, last_report>>
       ELSE /\ failBudget > 0
            /\ failBudget' = failBudget - 1
            /\ EsEnd("raised")
            /\ esDelivered' = FALSE
    /\ UNCHANGED <<ctlVars, move_history, stats, game_history, startPc, stopPc,
                   reconnect_delay, gs, game_stream_task, seeks, seek_task,
                   srv, cfg, auxVars, stop_calls, submitted>>

\* The stream ends while a chunk is awaited: the remote closed it
\* ("closed"), the read raised an aiohttp.ClientError ("client_error"), or
\* it raised another exception ("error").
EsStreamEnd(cause) ==
    /\ esPc = "read"
    /\ cause \in StreamEndCauses
    /\ failBudget > 0
    /\ failBudget' = failBudget - 1
    /\ EsEnd(EndSignal(cause))
    /\ UNCHANGED <<ctlVars, move_history, stats, game_history, startPc, stopPc,
                   reconnect_delay, gs, game_stream_task, seeks, seek_task,
                   srv, cfg, auxVars, stop_calls, esDelivered, submitted>>

\* The lines that are protocol errors: bytes that are no UTF-8 text, text
\* that is no JSON, and a JSON object of a type no callback is for.
ProtocolErrors == {"bad_utf8", "bad_json", "unknown_type"}

\* What _stream_ndjson and its consumer do with such a line: line.decode
\* raises UnicodeDecodeError outside every try, json.JSONDecodeError is
\* caught and the line skipped, and no branch matches an unknown type.
LineOutcome(kind) == IF kind = "bad_utf8" THEN "raised" ELSE "dropped"

\* A protocol-error line is read from the control stream.
EsProtocolLine(kind) ==
    /\ EsAtLine
    /\ kind \in ProtocolErrors
    /\ IF LineOutcome(kind) = "raised"
       THEN /\ failBudget > 0
            /\ failBudget' = failBudget - 1
            /\ EsEnd("raised")
       ELSE /\ EsReturn
            /\ UNCHANGED <<failBudget, last_report>>
    /\ UNCHANGED <<ctlVars, move_history, stats, game_history, startPc, stopPc,
                   reconnect_delay, gs, game_stream_task, seeks, seek_task,
                   srv, cfg, auxVars, stop_calls, esDelivered, submitted>>

\* asyncio.sleep(reconnect_delay) is over: the delay doubles up to the cap,
\* and the while test follows.
EsBackoffDone ==
    /\ esPc = "backoff"
    /\ reconnect_delay' = NextDelay(reconnect_delay)
    /\ EsGoto(EsWhile(is_running))
    /\ UNCHANGED <<ctlVars, move_history, stats, game_history, startPc, stopPc,
                   gs, game_stream_task, seeks, seek_task, srv, cfg, auxVars,
                   last_report, stop_calls, esDelivered, submitted,
                   failBudget>>

(* --------------------- control-stream handlers ------------------------- *)
\* The lowest slot that holds no live game-stream task.
FreeSlots == {s \in Slots : gs[s].pc = "none"}
NewSlot == CHOOSE s \in FreeSlots : \A t \in FreeSlots : s <= t

\* _on_game_start, for a gameStart event of game g played as color c.  The
\* game_started signal runs _handle_game_started, which resets the board
\* widget; a seek that is still open is cancelled; a game-stream task is
\* created.  The event is the first of a new game or repeats a started one.
EsGameStart(g, c) ==
    /\ EsAtLine
    /\ g \in cfg.games
    /\ srv[g] \in {"none", "started"}
    /\ c = ColorOf(g)
    /\ FreeSlots # {}
    /\ Cardinality(Slots \ FreeSlots) < cfg.maxStreams
    /\ srv' = [srv EXCEPT ![g] = "started"]
    /\ esDelivered' = TRUE
    /\ current_game_id' = g
    /\ our_color' = c
    /\ move_history' = << >>
    /\ seeks' = seeks \ {seek_task}
    /\ seek_task' = NoTask
    /\ gs' = [GsResumed(gs, seek_task) EXCEPT
                 ![NewSlot] = [NoStream EXCEPT !.pc = "open", !.gid = g]]
    /\ game_stream_task' = NewSlot
    /\ EsReturn
    /\ UNCHANGED <<is_running, stop_after_game, game_board, engine,
                   lichess_client, stopping, stats, game_history, startPc,
                   stopPc, reconnect_delay, cfg, auxVars, last_report,
                   stop_calls, submitted, failBudget>>

\* The result _on_game_finish derives from the winner field.
GameResult(winner, color) ==
    IF winner = color THEN "win"
    ELSE IF winner # None THEN "loss"
    ELSE "draw"

\* Statistics that are never updated.
UpdateStatisticsNever(st, result) == st

\* DatabaseManager.update_statistics
UpdateStatistics(st, result) ==
    [st EXCEPT !.games_played = @ + 1,
               !.games_won = IF result = "win" THEN @ + 1 ELSE @,
               !.games_lost = IF result = "loss" THEN @ + 1 ELSE @,
               !.games_drawn = IF result = "draw" THEN @ + 1 ELSE @]

\* DatabaseManager.add_game: INSERT OR REPLACE on the unique game_id.
AddGame(hist, g, color, result) ==
    [hist EXCEPT ![g] = [color |-> IF color = None THEN "unknown" ELSE color,
                         result |-> result]]

\* A status test that takes no status for an abort.
IsAbortStatusNever(status) == FALSE

\* status in ["aborted", "noStart"]
IsAbortStatus(status) == status \in AbortStatuses

\* The winners a finished game can carry.
WinnersOf(status) ==
    IF status \in {"mate", "resign", "timeout", "outoftime", "cheat"}
    THEN Colors ELSE {None}

\* _on_stop_bot with no current game: the stop task is scheduled.
ScheduleStop(pc) == IF pc = "none" THEN "begin" ELSE pc

\* _on_game_finish, for a gameFinish event of game g with its final status
\* and winner, up to its first await or its return.
EsGameFinish(g, winner) ==
    /\ EsAtLine
    /\ srv[g] \in TerminalStatuses
    /\ winner \in WinnersOf(srv[g])
    /\ esDelivered' = TRUE
    /\ current_game_id' = None
    /\ our_color' = None
    /\ game_board' = NoBoard
    /\ IF IsAbortStatus(srv[g])
       THEN /\ move_history' = << >>
            /\ IF is_running THEN EsGoto("fin_sleep") ELSE EsReturn
            /\ UNCHANGED <<stats, game_history, stopPc>>
       ELSE /\ stats.games_played < cfg.maxPlayed
            /\ stats' = UpdateStatistics(stats, GameResult(winner, our_color))
            /\ game_history' = AddGame(game_history, g, our_color,
                                       GameResult(winner, our_color))
            /\ IF stop_after_game
               THEN /\ stopPc' = ScheduleStop(stopPc)
                    /\ EsReturn
               ELSE /\ IF is_running THEN EsGoto("fin_sleep") ELSE EsReturn
                    /\ UNCHANGED stopPc
            /\ UNCHANGED move_history
    /\ UNCHANGED <<is_running, stop_after_game, engine, lichess_client,
                   stopping, startPc, reconnect_delay, gs, game_stream_task,
                   seeks, seek_task, srv, cfg, auxVars, last_report,
                   stop_calls, submitted, failBudget>>

\* asyncio.sleep(2) of _on_game_finish is over: _seek_game.
EsFinishSleepDone ==
    /\ esPc = "fin_sleep"
    /\ IF SeekIssued
       THEN /\ seeks' = seeks \cup {EsTask}
            /\ seek_task' = EsTask
            /\ EsGoto("fin_seek")
       ELSE /\ EsReturn
            /\ UNCHANGED <<seeks, seek_task>>
    /\ UNCHANGED <<ctlVars, move_history, stats, game_history, startPc, stopPc,
                   reconnect_delay, gs, game_stream_task, srv, cfg, auxVars,
                   last_report, stop_calls, esDelivered, submitted,
                   failBudget>>

\* create_seek of the seek awaited by task a ends: the server closes the
\* connection (a match, an expiry) or answers with an error.  The awaiter
\* returns from _seek_game and from its handler.
SeekClose(a) ==
    /\ a \in seeks
    /\ seeks' = seeks \ {a}
    /\ seek_task' = IF seek_task = a THEN NoTask ELSE seek_task
    /\ gs' = GsResumed(gs, a)
    /\ game_stream_task' = StreamTaskIn(gs')
    /\ IF a = EsTask THEN EsReturn ELSE UNCHANGED <<esPc, waits>>
    /\ UNCHANGED <<ctlVars, move_history, stats, game_history, startPc, stopPc,
                   reconnect_delay, srv, cfg, auxVars, last_report, stop_calls,
                   esDelivered, submitted, failBudget>>

\* _on_challenge: a challenge event, declined.
EsChallenge ==
    /\ EsAtLine
    /\ esDelivered' = TRUE
    /\ EsGoto("challenge")
    /\ UNCHANGED <<ctlVars, move_history, stats, game_history, startPc, stopPc,
                   reconnect_delay, gs, game_stream_task, seeks, seek_task,
                   srv, cfg, auxVars, last_report, stop_calls, submitted,
                   failBudget>>

\* decline_challenge returns, or raises a connection error that leaves
\* stream_events.
EsChallengeDone(ok) ==
    /\ esPc = "challenge"
    /\ IF ok /\ lichess_client
       THEN /\ EsReturn
            /\ UNCHANGED <<failBudget, last_report>>
       ELSE /\ failBudget > 0
            /\ failBudget' = failBudget - 1
            /\ EsEnd("raised")
    /\ UNCHANGED <<ctlVars, move_history, stats, game_history, startPc, stopPc,
                   reconnect_delay, gs, game_stream_task, seeks, seek_task,
                   srv, cfg, auxVars, stop_calls, esDelivered, submitted>>

\* The server ends a started game.
ServerEndGame(g, status) ==
    /\ srv[g] = "started"
    /\ status \in cfg.endStatuses
    /\ srv' = [srv EXCEPT ![g] = status]
    /\ UNCHANGED <<ctlVars, move_history, stats, game_history, taskVars, cfg,
                   auxVars, last_report, stop_calls, esDelivered, waits,
                   submitted, failBudget>>

(* ------------------------- _run_game_stream ---------------------------- *)
Alive(s) == gs[s].pc # "none"

\* The status the server writes into a record of game g, and the move
\* lists that can go with it: a mate ends the move list, a started game is
\* not over, an abort is possible in the first moves only.
RecordOk(g, ms, st) ==
    /\ st = srv[g]
    /\ ms \in MoveListsUpTo(cfg.maxPly)
    /\ (st = "mate") => IsGameOver(ms)
    /\ (st = "started") => ~IsGameOver(ms)
    /\ (st \in AbortStatuses) => Len(ms) <= 1

\* The tests at the head of _maybe_make_move.
CanMove(board, eng, gid, color) ==
    /\ board # NoBoard
    /\ eng
    /\ gid # None
    /\ ~IsGameOver(board)
    /\ Turn(board) = color

\* Calls of engine.get_best_move in progress or answered and not yet sent.
Thinking == {s \in Slots : gs[s].pc \in {"engine", "throttle"}}

\* The task in slot s moves to pc (ply: the position an engine move is
\* asked for, sawT: a terminal status was read from the stream).  req is
\* self.current_game_id at the call of engine.get_best_move, kept while the
\* call of _maybe_make_move lasts.
GsGoto(s, pc, ply, sawT) ==
    /\ gs' = [gs EXCEPT ![s] = IF pc = "done" THEN NoStream
                               ELSE [pc |-> pc, gid |-> gs[s].gid,
                                     ply |-> ply, sawTerminal |-> sawT,
                                     req |-> IF pc = "engine"
                                             THEN current_game_id
                                             ELSE IF pc = "throttle"
                                             THEN gs[s].req
                                             ELSE None]]
    /\ game_stream_task' = IF pc = "done" /\ game_stream_task = s
                           THEN NoTask ELSE game_stream_task

\* A line of the game stream of slot s was handled: the next line of the
\* buffer, or the top of the read loop.
GsNextLine(more) == IF more /\ stopping THEN "buffered" ELSE GsAfterHandler

\* A handler of the game stream of slot s returns to _stream_ndjson.
GsReturn(s, sawT) == \E more \in BOOLEAN : GsGoto(s, GsNextLine(more), 0, sawT)

\* stream_game of the task in slot s ended with the signal sig:
\* _run_game_stream ends; an exception is logged when the bot is running.
GsEnd(s, sig) ==
    /\ GsGoto(s, "done", 0, FALSE)
    /\ last_report' = IF sig = "raised" /\ is_running
                      THEN "Game stream error" ELSE last_report

\* stream_game opens the game stream of the task in slot s: status 200, or
\* an error response or a connection error, which raise.  With the stop flag
\* set the read loop is not entered.
GsOpen(s, ok) ==
    /\ gs[s].pc = "open"
    /\ IF ok /\ lichess_client
       THEN /\ GsGoto(s, IF stopping THEN "done" ELSE "wait_full", 0, FALSE)
            /\ UNCHANGED last_report
       ELSE GsEnd(s, "raised")
    /\ UNCHANGED <<ctlVars, move_history, stats, game_history, startPc, stopPc,
                   esPc, reconnect_delay, seeks, seek_task, srv, cfg, auxVars,
                   stop_calls, esDelivered, waits, submitted, failBudget>>

\* The game stream of slot s ends while a chunk is awaited: closed by the
\* remote, an aiohttp.ClientError, or another exception.
GsStreamEnd(s, cause) ==
    /\ gs[s].pc \in {"wait_full", "read"}
    /\ cause \in StreamEndCauses
    /\ GsEnd(s, EndSignal(cause))
    /\ UNCHANGED <<ctlVars, move_history, stats, game_history, startPc, stopPc,
                   esPc, reconnect_delay, seeks, seek_task, srv, cfg, auxVars,
                   stop_calls, esDelivered, waits, submitted, failBudget>>

\* A protocol-error line is read from the game stream of slot s.
GsProtocolLine(s, kind) ==
    /\ gs[s].pc \in {"wait_full", "read", "buffered"}
    /\ kind \in ProtocolErrors
    /\ IF LineOutcome(kind) = "raised"
       THEN GsEnd(s, "raised")
       ELSE /\ IF gs[s].pc = "wait_full"
               THEN GsGoto(s, IF stopping THEN "done" ELSE "wait_full", 0, FALSE)
               ELSE GsReturn(s, gs[s].sawTerminal)
            /\ UNCHANGED last_report
    /\ UNCHANGED <<ctlVars, move_history, stats, game_history, startPc, stopPc,
                   esPc, reconnect_delay, seeks, seek_task, srv, cfg, auxVars,
                   stop_calls, esDelivered, waits, submitted, failBudget>>

\* _maybe_make_move up to the await of the engine, after the board became
\* b: the task waits for the engine, or the handler returns.
MaybeMakeMove(s, b, sawT) ==
    IF CanMove(b, engine, current_game_id, our_color)
    THEN /\ Len(submitted) + Cardinality(Thinking) < cfg.maxSubmits
         /\ GsGoto(s, "engine", Len(b), sawT)
    ELSE GsReturn(s, sawT)

\* _on_game_full, for the gameFull record of the stream in slot s whose
\* state carries the moves ms and the status st.
GsGameFull(s, ms, st) ==
    /\ gs[s].pc = "wait_full"
    /\ RecordOk(gs[s].gid, ms, st)
    /\ move_history' = IF ms # << >>
                       THEN SetPositionFromMoves(move_history, ms)
                       ELSE << >>
    /\ game_board' = IF ms # << >> THEN GetLiveBoard(move_history') ELSE << >>
    /\ MaybeMakeMove(s, game_board', st \in TerminalStatuses)
    /\ UNCHANGED <<is_running, stop_after_game, current_game_id, our_color,
                   engine, lichess_client, stopping, stats, game_history,
                   startPc, stopPc, esPc, reconnect_delay, seeks, seek_task,
                   srv, cfg, auxVars, last_report, stop_calls, esDelivered,
                   waits, submitted, failBudget>>

\* status in ["started", "created"]
IsOngoingStatus(status) == status \in OngoingStatuses

\* _on_game_state, for a gameState record of the stream in slot s with the
\* moves ms and the status st, up to its first await or its return.  An
\* abort runs _on_game_aborted.
GsGameState(s, ms, st) ==
    /\ gs[s].pc \in {"read", "buffered"}
    /\ RecordOk(gs[s].gid, ms, st)
    /\ IF IsAbortStatus(st)
       THEN /\ current_game_id' = None
            /\ our_color' = None
            /\ game_board' = NoBoard
            /\ move_history' = << >>
            /\ IF is_running THEN GsGoto(s, "abort_sleep", 0, TRUE)
               ELSE GsReturn(s, TRUE)
       ELSE /\ move_history' = SetPositionFromMoves(move_history, ms)
            /\ game_board' = GetLiveBoard(move_history')
            /\ UNCHANGED <<current_game_id, our_color>>
            /\ IF st \in EndStatuses \/ ~IsOngoingStatus(st)
               THEN GsReturn(s, gs[s].sawTerminal \/ st \in TerminalStatuses)
               ELSE MaybeMakeMove(s, game_board',
                           gs[s].sawTerminal \/ st \in TerminalStatuses)
    /\ UNCHANGED <<is_running, stop_after_game, engine, lichess_client,
                   stopping, stats, game_history, startPc, stopPc, esPc,
                   reconnect_delay, seeks, seek_task, srv, cfg, auxVars,
                   last_report, stop_calls, esDelivered, waits, submitted,
                   failBudget>>

\* asyncio.sleep(2) of _on_game_aborted is over: _seek_game.
GsAbortSleepDone(s) ==
    /\ gs[s].pc = "abort_sleep"
    /\ IF SeekIssued
       THEN /\ seeks' = seeks \cup {s}
            /\ seek_task' = s
            /\ GsGoto(s, "abort_seek", 0, TRUE)
       ELSE /\ GsReturn(s, TRUE)
            /\ UNCHANGED <<seeks, seek_task>>
    /\ UNCHANGED <<ctlVars, move_history, stats, game_history, startPc, stopPc,
                   esPc, reconnect_delay, srv, cfg, auxVars, last_report,
                   stop_calls, esDelivered, waits, submitted, failBudget>>

\* The call make_move(self.current_game_id, move_uci) by the task in slot
\* s: the request is sent, or the call raises when the client is gone.  The
\* answer is only logged, and the handler returns.
MakeMove(s) ==
    /\ submitted' = IF lichess_client
                    THEN Append(submitted,
                                [gid |-> current_game_id, ply |-> gs[s].ply,
                                 stream |-> gs[s].gid, req |-> gs[s].req])
                    ELSE submitted
    /\ GsReturn(s, gs[s].sawTerminal)

\* engine.get_best_move returns a move for the board it was given; the
\* move is sent at once, or after the throttle delay when the target time
\* is not reached (wait).
GsEngineMove(s, wait) ==
    /\ gs[s].pc = "engine"
    /\ engine
    /\ IF wait
       THEN /\ GsGoto(s, "throttle", gs[s].ply, gs[s].sawTerminal)
            /\ UNCHANGED submitted
       ELSE MakeMove(s)
    /\ UNCHANGED <<ctlVars, move_history, stats, game_history, startPc, stopPc,
                   esPc, reconnect_delay, seeks, seek_task, srv, cfg, auxVars,
                   last_report, stop_calls, esDelivered, waits, failBudget>>

\* engine.get_best_move raises or returns no move: logged, nothing sent.
GsEngineFail(s) ==
    /\ gs[s].pc = "engine"
    /\ GsReturn(s, gs[s].sawTerminal)
    /\ UNCHANGED <<ctlVars, move_history, stats, game_history, startPc, stopPc,
                   esPc, reconnect_delay, seeks, seek_task, srv, cfg, auxVars,
                   last_report, stop_calls, esDelivered, waits, submitted,
                   failBudget>>

\* asyncio.sleep(remaining_wait) is over: the move is sent.
GsThrottleDone(s) ==
    /\ gs[s].pc = "throttle"
    /\ MakeMove(s)
    /\ UNCHANGED <<ctlVars, move_history, stats, game_history, startPc, stopPc,
                   esPc, reconnect_delay, seeks, seek_task, srv, cfg, auxVars,
                   last_report, stop_calls, esDelivered, waits, failBudget>>

(* ------------------------------ stopping ------------------------------- *)
\* _on_stop_after_game: the Stop After Game button is toggled.
OnStopAfterGame ==
    /\ is_running
    /\ stopPc = "none"
    /\ stop_after_game' = ~stop_after_game
    /\ UNCHANGED <<is_running, current_game_id, our_color, game_board, engine,
                   lichess_client, stopping, move_history, stats, game_history,
                   taskVars, srv, cfg, auxVars, last_report, stop_calls,
                   esDelivered, waits, submitted, failBudget>>

\* _on_stop_bot: the Stop button is pressed (and the resignation warning
\* confirmed): the stop task is scheduled.
OnStopBot ==
    /\ is_running
    /\ stopPc = "none"
    /\ stopPc' = "begin"
    /\ UNCHANGED <<ctlVars, move_history, stats, game_history, startPc, esPc,
                   reconnect_delay, gs, game_stream_task, seeks, seek_task,
                   srv, cfg, auxVars, last_report, stop_calls, esDelivered,
                   waits, submitted, failBudget>>

\* The tasks _cleanup cancels: the control-stream task, the game-stream
\* task last created and the seek task last created, with the seeks the
\* cancelled tasks await.
Cancelled == {EsTask, game_stream_task, seek_task}

\* _cleanup up to the await of the cancelled tasks: task.cancel() for each
\* task that is not done.  No await separates it from the code before it.
CleanupCancel ==
    /\ esPc' = IF esPc = "none" THEN "none" ELSE "done"
    /\ gs' = [s \in Slots |->
                IF s = game_stream_task THEN NoStream
                ELSE GsResumed(gs, seek_task)[s]]
    /\ game_stream_task' = NoTask
    /\ seeks' = seeks \ Cancelled
    /\ seek_task' = NoTask

\* The stop task goes on to pc: entering _cleanup it cancels the tasks.
StopGoto(pc) ==
    /\ stopPc' = pc
    /\ IF pc = "cleanup_wait"
       THEN CleanupCancel
       ELSE UNCHANGED <<esPc, gs, game_stream_task, seeks, seek_task>>

\* _stop_bot_async up to its first await: the run flag is cleared and the
\* client is told to stop its streams; a game in flight is aborted first,
\* otherwise _cleanup follows at once.
StopBegin ==
    /\ stopPc = "begin"
    /\ is_running' = FALSE
    /\ stopping' = (stopping \/ lichess_client)
    /\ IF current_game_id # None /\ lichess_client
       THEN /\ StopGoto("abort")
            /\ stop_calls' = Append(stop_calls, "abort")
       ELSE /\ StopGoto("cleanup_wait")
            /\ UNCHANGED stop_calls
    /\ UNCHANGED <<stop_after_game, current_game_id, our_color, game_board,
                   engine, lichess_client, move_history, stats, game_history,
                   startPc, reconnect_delay, srv, cfg, auxVars, last_report,
                   esDelivered, waits, submitted, failBudget>>

\* What follows an abort_game that raised or timed out: the resignation.
AfterAbortResignsOnError(res) == IF res = "ok" THEN "cleanup_wait" ELSE "resign"

\* What follows an abort_game that raised or timed out: the end of the stop
\* task, _cleanup left out.
AfterAbortErrorIsFatal(res) ==
    IF res = "rejected" THEN "resign"
    ELSE IF res = "error" THEN "done" ELSE "cleanup_wait"

\* if aborted: ... else: resign_game; the except clauses lead to _cleanup.
AfterAbort(res) == IF res = "rejected" THEN "resign" ELSE "cleanup_wait"

\* abort_game answers: accepted ("ok"), rejected (False is returned and
\* resign_game is called), or it raises or times out ("error").
StopAbort(res) ==
    /\ stopPc = "abort"
    /\ res \in {"ok", "rejected", "error"}
    /\ StopGoto(AfterAbort(res))
    /\ stop_calls' = IF AfterAbort(res) = "resign"
                     THEN stop_calls \o <<res, "resign">>
                     ELSE Append(stop_calls, res)
    /\ UNCHANGED <<ctlVars, move_history, stats, game_history, startPc,
                   reconnect_delay, srv, cfg, auxVars, last_report,
                   esDelivered, waits, submitted, failBudget>>

\* resign_game answers, raises or times out: _cleanup follows.
StopResign ==
    /\ stopPc = "resign"
    /\ StopGoto("cleanup_wait")
    /\ UNCHANGED <<ctlVars, move_history, stats, game_history, startPc,
                   reconnect_delay, srv, cfg, auxVars, last_report, stop_calls,
                   esDelivered, waits, submitted, failBudget>>

\* _cleanup after the wait: the engine is stopped, the client is closed
\* and the state is reset.
CleanupFinish ==
    /\ stopPc = "cleanup_wait"
    /\ engine' = FALSE
    /\ lichess_client' = FALSE
    /\ stopping' = TRUE
    /\ current_game_id' = None
    /\ our_color' = None
    /\ game_board' = NoBoard
    /\ is_running' = FALSE
    /\ stop_after_game' = FALSE
    /\ stopPc' = "done"
    /\ UNCHANGED <<move_history, stats, game_history, startPc, esPc,
                   reconnect_delay, gs, game_stream_task, seeks, seek_task,
                   srv, cfg, auxVars, last_report, stop_calls, esDelivered,
                   waits, submitted, failBudget>>

(* --------------------- LichessClient._stream_ndjson -------------------- *)
\* READ_TIMEOUT, the sock_read timeout of the stream, in seconds.
READ_TIMEOUT == 60
\* "if now - last_stop_check > 2.0": the period of the stop check.
StopCheckPeriod == 2
\* response.content.read(1024)
ReadSize == 1024

\* The bytes of a stream: a digit, a blank, a bracket, the newline and a
\* byte that occurs in no UTF-8 text (0xFF).
Newline == "nl"
Bytes == {"1", " ", "[", Newline, "xFF"}

RECURSIVE SeqsOfLen(_, _)
SeqsOfLen(S, n) ==
    IF n = 0 THEN {<< >>}
    ELSE UNION {{Append(q, b) : b \in S} : q \in SeqsOfLen(S, n - 1)}

\* The byte streams of at most n bytes.
ByteStreams(n) == UNION {SeqsOfLen(Bytes, k) : k \in 0 .. n}

\* b'\n' in buffer
HasNewline(buf) == \E i \in 1 .. Len(buf) : buf[i] = Newline

\* The index of the first newline of buf.
FirstNewline(buf) ==
    CHOOSE i \in 1 .. Len(buf) :
        buf[i] = Newline /\ \A j \in 1 .. (i - 1) : buf[j] # Newline

\* line, buffer = buffer.split(b'\n', 1)
SplitLine(buf) ==
    [line |-> SubSeq(buf, 1, FirstNewline(buf) - 1),
     rest |-> SubSeq(buf, FirstNewline(buf) + 1, Len(buf))]

\* line.decode('utf-8') returns a text: no byte of the line is 0xFF.
Decodable(line) == \A i \in 1 .. Len(line) : line[i] # "xFF"

\* str.strip(): blanks at both ends are removed.
RECURSIVE LStrip(_)
LStrip(t) == IF t # << >> /\ Head(t) = " " THEN LStrip(Tail(t)) ELSE t
RECURSIVE RStrip(_)
RStrip(t) ==
    IF t # << >> /\ t[Len(t)] = " " THEN RStrip(SubSeq(t, 1, Len(t) - 1))
    ELSE t
Strip(t) == RStrip(LStrip(t))

\* json.loads(line_str) returns a value: over these bytes the JSON texts
\* are the numbers, one or more digits with no blank between them.
IsJson(t) == t # << >> /\ \A i \in 1 .. Len(t) : t[i] = "1"

\* The inner loop "while b'\n' in buffer" from the buffer buf on, up to
\* its next yield, the exception that leaves it, or its end: empty lines
\* and lines json.loads rejects are passed over.
RECURSIVE Drain(_)
Drain(buf) ==
    IF ~HasNewline(buf) THEN [pc |-> "top", buffer |-> buf, rec |-> << >>]
    ELSE IF ~Decodable(SplitLine(buf).line)
         THEN [pc |-> "raised", buffer |-> SplitLine(buf).rest, rec |-> << >>]
    ELSE IF IsJson(Strip(SplitLine(buf).line))
         THEN [pc |-> "yield", buffer |-> SplitLine(buf).rest,
               rec |-> Strip(SplitLine(buf).line)]
    ELSE Drain(SplitLine(buf).rest)

\* The generator goes on from the buffer buf: to its next yield, out by an
\* exception, or back to "while not self._stopping", where it awaits the
\* next chunk or ends.
RdContinue(buf) ==
    LET d == Drain(buf) IN
    [rd EXCEPT !.buffer = d.buffer,
               !.idle = 0,
               !.yielded = IF d.pc = "yield" THEN Append(@, d.rec) ELSE @,
               !.pc = IF d.pc = "top"
                      THEN (IF rd.stopping THEN "done" ELSE "read")
                      ELSE d.pc,
               !.ended = IF d.pc = "raised" THEN "raised"
                         ELSE IF d.pc = "top" /\ rd.stopping THEN "stopped"
                         ELSE @]

\* await response.content.read(1024) returns the next n bytes of the
\* stream, and the complete lines of the buffer are processed.
RdChunk(n) ==
    /\ rd.pc = "read"
    /\ n \in 1 .. Min(ReadSize, Len(rd.stream) - rd.pos)
    /\ rd' = [RdContinue(rd.buffer \o SubSeq(rd.stream, rd.pos + 1, rd.pos + n))
                 EXCEPT !.pos = rd.pos + n]
    /\ UNCHANGED <<mainVars, plan, boot>>

\* The consumer has handled the record it was given and asks for the next.
RdResume ==
    /\ rd.pc = "yield"
    /\ rd' = RdContinue(rd.buffer)
    /\ UNCHANGED <<mainVars, plan, boot>>

\* The remote has sent the whole stream and closes it: read returns an
\* empty chunk and the loop ends by break.
RdClose ==
    /\ rd.pc = "read"
    /\ rd.pos = Len(rd.stream)
    /\ rd' = [rd EXCEPT !.pc = "done", !.ended = "closed"]
    /\ UNCHANGED <<mainVars, plan, boot>>

\* The read raises an aiohttp.ClientError: the loop ends by break.
RdClientError ==
    /\ rd.pc = "read"
    /\ rd' = [rd EXCEPT !.pc = "done", !.ended = "client_error"]
    /\ UNCHANGED <<mainVars, plan, boot>>

\* A second passes in which the pending read gets no byte; after
\* READ_TIMEOUT such seconds aiohttp raises its timeout, an
\* aiohttp.ClientError, and the loop ends by break.
RdTick ==
    /\ rd.pc = "read"
    /\ rd.silence > 0
    /\ rd' = [rd EXCEPT
                 !.silence = @ - 1,
                 !.idle = IF @ + 1 = READ_TIMEOUT THEN 0 ELSE @ + 1,
                 !.sinceStop = IF rd.stopping
                               THEN Min(@ + 1, StopCheckPeriod + 1) ELSE @,
                 !.pc = IF rd.idle + 1 = READ_TIMEOUT THEN "done" ELSE @,
                 !.ended = IF rd.idle + 1 = READ_TIMEOUT THEN "timeout" ELSE @]
    /\ UNCHANGED <<mainVars, plan, boot>>

\* request_stop: self._stopping = True.
RdRequestStop ==
    /\ rd.pc \in {"read", "yield"}
    /\ ~rd.stopping
    /\ rd' = [rd EXCEPT !.stopping = TRUE]
    /\ UNCHANGED <<mainVars, plan, boot>>

NextNdjson ==
    \/ \E n \in 1 .. MaxBytes : RdChunk(n)
    \/ RdResume
    \/ RdClose
    \/ RdClientError
    \/ RdTick
    \/ RdRequestStop

\* A stream is open (status 200) and the read loop is entered; the remote
\* will send the bytes of stream and stay silent for at most silence
\* seconds in all.
ReadOpen(streams, silence) ==
    /\ rd \in {[NoRead EXCEPT !.pc = "read", !.stream = b,
                               !.silence = silence] : b \in streams}
    /\ plan = NoPlan
    /\ boot = NoBoot

\* The controller at rest.
InitRest ==
    /\ InitCommon
    /\ cfg = Config({"g1"}, MaxPly, {"resign", "aborted"}, 1, MaxFails,
                    MaxGamesPlayed, MaxSubmits)
    /\ failBudget = cfg.maxFails

\* Every byte stream of at most MaxBytes bytes, read in chunks of any sizes.
InitNdjson == InitRest /\ ReadOpen(ByteStreams(MaxBytes), MaxSilence)

\* A remote that can stay silent until the read times out.
InitQuiet == InitRest /\ ReadOpen(ByteStreams(MaxBytesQuiet), READ_TIMEOUT)

(* ------------------- the timing of _maybe_make_move -------------------- *)
\* "if move_number <= 10": the last move of the opening range.
OpeningMoves == 10

\* The values the four spin boxes take, in tenths of a second (their range
\* is 0.1 to 60.0); the defaults are 1.0 and 3.0, 3.0 and 8.0.
TimeValues == {10, 30, 80}
SpinBoxes == {"opening_min", "opening_max", "midgame_min", "midgame_max"}

\* No engine request has been made. An optional number (time_limit, nodes)
\* is the set of its value, empty for Python's None.
NoRequest == [move_number |-> 0, target |-> 0, time |-> {}, nodes |-> {}]

\* _validate_time_settings
ValidateTimeSettings(p) ==
    /\ ~(p.opening_min > p.opening_max)
    /\ ~(p.midgame_min > p.midgame_max)

\* time_max taken from the opening range at every move number.
TimeMaxOpeningOnly(p, n) == p.opening_max

\* time_min and time_max of _maybe_make_move at move number n.
TimeMin(p, n) == IF n <= OpeningMoves THEN p.opening_min ELSE p.midgame_min
TimeMax(p, n) == IF n <= OpeningMoves THEN p.opening_max ELSE p.midgame_max

\* random.uniform(a, b) is a + (b - a) * random.random(), here with
\* random.random() = k / SampleSteps.
Uniform(a, b, k) == a + ((b - a) * k) \div SampleSteps

\* The chess.engine.Limit get_best_move builds from its arguments: the time
\* of the limit is time_limit, and 1.0 second when no limit at all is given.
EngineLimit(time_limit, nodes) ==
    [time |-> IF time_limit # {} THEN time_limit
              ELSE IF nodes = {} THEN {10} ELSE {},
     nodes |-> nodes]

\* The user changes a spin box; the boxes are enabled until the bot runs.
PlanEdit(box, v) ==
    /\ plan.pc \in {"idle", "starting"}
    /\ plan[box] # v
    /\ plan' = [plan EXCEPT ![box] = v]
    /\ UNCHANGED <<mainVars, rd, boot>>

\* _on_start_bot: the time settings are validated and the start begins.
PlanStart ==
    /\ plan.pc = "idle"
    /\ ValidateTimeSettings(plan)
    /\ plan' = [plan EXCEPT !.pc = "starting"]
    /\ UNCHANGED <<mainVars, rd, boot>>

\* _start_bot_async: the engine and the account are there (ok), the bot
\* runs and the spin boxes are disabled; or the start fails and _cleanup
\* runs.
PlanStarted(ok) ==
    /\ plan.pc = "starting"
    /\ plan' = [plan EXCEPT !.pc = IF ok THEN "running" ELSE "idle"]
    /\ UNCHANGED <<mainVars, rd, boot>>

\* _maybe_make_move on our turn at move number n: the range of the tier is
\* read, the target delay is sampled and the engine is asked for a move.
PlanMove(n, k, single) ==
    LET time_min == TimeMin(plan, n)
        time_max == TimeMax(plan, n)
        nodes_limit == IF single THEN {1} ELSE {}
        limit == EngineLimit({time_max}, nodes_limit)
    IN /\ plan.pc = "running"
       /\ plan' = [plan EXCEPT
                      !.request = [move_number |-> n,
                                   target |-> Uniform(time_min, time_max, k),
                                   time |-> limit.time,
                                   nodes |-> limit.nodes]]
       /\ UNCHANGED <<mainVars, rd, boot>>

\* _cleanup: the bot has stopped, the spin boxes are enabled again.
PlanStop ==
    /\ plan.pc = "running"
    /\ plan' = [plan EXCEPT !.pc = "idle", !.request = NoRequest]
    /\ UNCHANGED <<mainVars, rd, boot>>

NextTiming ==
    \/ \E box \in SpinBoxes, v \in TimeValues : PlanEdit(box, v)
    \/ PlanStart
    \/ \E ok \in BOOLEAN : PlanStarted(ok)
    \/ \E n \in 1 .. MaxMoveNumber, k \in 0 .. SampleSteps, single \in BOOLEAN :
          PlanMove(n, k, single)
    \/ PlanStop

\* The window as built: the default time settings, the bot not running.
InitTiming ==
    /\ InitRest
    /\ rd = NoRead
    /\ boot = NoBoot
    /\ plan = [pc |-> "idle", opening_min |-> 10, opening_max |-> 30,
               midgame_min |-> 30, midgame_max |-> 80, request |-> NoRequest]

(* ------------------ the Start button and its tasks -------------------- *)
\* The _start_bot_async tasks; the UCIEngine, the LichessClient and the
\* control-stream task a start task creates carry its number.
Starts == 1 .. MaxStarts

\* _cleanup on the window b: the control-stream task self.event_stream_task
\* refers to is cancelled, the engine self.engine refers to is stopped (its
\* process quits if it was spawned), the client self.lichess_client refers
\* to is closed, and the Start button is enabled.
BootCleaned(b) ==
    [b EXCEPT !.es = @ \ {b.event_stream_task},
              !.procs = @ \ {b.engine},
              !.engine = NoTask,
              !.clients = @ \ {b.lichess_client},
              !.lichess_client = NoTask,
              !.is_running = FALSE,
              !.start_btn = TRUE]

\* The Start button is clicked: _on_start_bot finds its inputs valid and
\* creates the task t, which runs "self.engine = UCIEngine(engine_path)" and
\* awaits self.engine.start().
BootPress(t) ==
    /\ boot.start_btn
    /\ boot.pc[t] = "none"
    /\ \A u \in Starts : u < t => boot.pc[u] # "none"
    /\ boot' = [boot EXCEPT !.pc[t] = "engine", !.engine = t]
    /\ UNCHANGED <<mainVars, rd, plan>>

\* engine.start() of the task t ends: the engine process runs, the task
\* creates its LichessClient and awaits get_account; or popen_uci failed
\* and the task runs _cleanup.  When a _cleanup has set self.engine to None
\* in between, self.engine.name raises and the task runs _cleanup as well.
BootEngineStart(t, ok) ==
    /\ boot.pc[t] = "engine"
    /\ boot' = IF ok /\ boot.engine # NoTask
               THEN [boot EXCEPT !.pc[t] = "account",
                                 !.procs = @ \cup {t},
                                 !.clients = @ \cup {t},
                                 !.lichess_client = t]
               ELSE IF ok
               THEN [BootCleaned([boot EXCEPT !.procs = @ \cup {t}])
                        EXCEPT !.pc[t] = "done"]
               ELSE [BootCleaned(boot) EXCEPT !.pc[t] = "done"]
    /\ UNCHANGED <<mainVars, rd, plan>>

\* get_account of the task t ends: the bot runs, the Start button is
\* disabled and the control-stream task is created; or the call raised and
\* the task runs _cleanup.
BootAccount(t, ok) ==
    /\ boot.pc[t] = "account"
    /\ boot' = IF ok
               THEN [boot EXCEPT !.pc[t] = "done",
                                 !.is_running = TRUE,
                                 !.start_btn = FALSE,
                                 !.es = @ \cup {t},
                                 !.event_stream_task = t]
               ELSE [BootCleaned(boot) EXCEPT !.pc[t] = "done"]
    /\ UNCHANGED <<mainVars, rd, plan>>

\* The Stop button is clicked while the bot runs: _stop_bot_async ends in
\* _cleanup.
BootStop ==
    /\ boot.is_running
    /\ boot' = BootCleaned(boot)
    /\ UNCHANGED <<mainVars, rd, plan>>

\* A control-stream task that was not cancelled leaves its loop
\* "while self.is_running" once the bot no longer runs.
BootEsExit(t) ==
    /\ t \in boot.es
    /\ ~boot.is_running
    /\ boot' = [boot EXCEPT !.es = @ \ {t}]
    /\ UNCHANGED <<mainVars, rd, plan>>

NextBoot ==
    \/ \E t \in Starts : BootPress(t)
    \/ \E t \in Starts, ok \in BOOLEAN : BootEngineStart(t, ok)
    \/ \E t \in Starts, ok \in BOOLEAN : BootAccount(t, ok)
    \/ BootStop
    \/ \E t \in Starts : BootEsExit(t)

\* The window as built: the Start button enabled, nothing started.
InitBoot ==
    /\ InitRest
    /\ rd = NoRead
    /\ plan = NoPlan
    /\ boot = [start_btn |-> TRUE, is_running |-> FALSE,
               pc |-> [t \in Starts |-> "none"], procs |-> {},
               engine |-> NoTask, clients |-> {}, lichess_client |-> NoTask,
               es |-> {}, event_stream_task |-> NoTask]

(* ---------------------------- specification ---------------------------- *)
Next ==
    \/ OnStartBot
    \/ \E ok \in BOOLEAN : StartEngine(ok)
    \/ \E ok \in BOOLEAN : StartAccount(ok)
    \/ \E a \in {StartTask, EsTask} \cup Slots : SeekClose(a)
    \/ OnStopAfterGame
    \/ OnStopBot
    \/ StopBegin
    \/ \E res \in {"ok", "rejected", "error"} : StopAbort(res)
    \/ StopResign
    \/ CleanupFinish
    \/ EsLoop
    \/ \E ok \in BOOLEAN : EsConnect(ok)
    \/ \E cause \in StreamEndCauses : EsStreamEnd(cause)
    \/ \E kind \in ProtocolErrors : EsProtocolLine(kind)
    \/ EsBackoffDone
    \/ \E g \in GameIds, c \in Colors : EsGameStart(g, c)
    \/ \E g \in GameIds, w \in Colors \cup {None} : EsGameFinish(g, w)
    \/ EsFinishSleepDone
    \/ EsChallenge
    \/ \E ok \in BOOLEAN : EsChallengeDone(ok)
    \/ \E g \in GameIds, st \in TerminalStatuses : ServerEndGame(g, st)
    \/ \E s \in Slots : \E ok \in BOOLEAN : GsOpen(s, ok)
    \/ \E s \in Slots, cause \in StreamEndCauses : GsStreamEnd(s, cause)
    \/ \E s \in Slots, kind \in ProtocolErrors : GsProtocolLine(s, kind)
    \/ \E s \in Slots, ms \in MoveListsUpTo(cfg.maxPly),
          st \in {"started"} \cup TerminalStatuses : GsGameFull(s, ms, st)
    \/ \E s \in Slots, ms \in MoveListsUpTo(cfg.maxPly),
          st \in {"started"} \cup TerminalStatuses : GsGameState(s, ms, st)
    \/ \E s \in Slots : GsAbortSleepDone(s)
    \/ \E s \in Slots, wait \in BOOLEAN : GsEngineMove(s, wait)
    \/ \E s \in Slots : GsEngineFail(s)
    \/ \E s \in Slots : GsThrottleDone(s)

Spec == Init /\ [][Next]_vars

\* The steps of the end-to-end scenario but for the gameFinish event: the
\* bot is started, the control stream delivers gameStart once, the game
\* stream is opened and delivers a gameFull with an empty move list, then
\* gameState records, the bot's own move and at last the mate, the engine
\* answers, the server ends the game and closes the game stream, seeks end;
\* challenges arrive on the control stream and are declined, and the remote
\* closes the control stream, which is opened again.
ScenarioSteps ==
    \/ OnStartBot
    \/ StartEngine(TRUE)
    \/ StartAccount(TRUE)
    \/ EsLoop
    \/ EsConnect(TRUE)
    \/ \E a \in {StartTask, EsTask} : SeekClose(a)
    \/ \E g \in GameIds, c \in Colors : srv[g] = "none" /\ EsGameStart(g, c)
    \/ \E g \in GameIds : ServerEndGame(g, "mate")
    \/ \E s \in Slots : GsOpen(s, TRUE)
    \/ \E s \in Slots : GsStreamEnd(s, "closed")
    \/ \E s \in Slots : GsGameFull(s, << >>, "started")
    \/ \E s \in Slots, ms \in MoveListsUpTo(cfg.maxPly),
          st \in {"started", "mate"} :
             /\ ~gs[s].sawTerminal
             /\ st = "started" => Len(ms) = 1
             /\ GsGameState(s, ms, st)
    \/ \E s \in Slots, wait \in BOOLEAN : GsEngineMove(s, wait)
    \/ \E s \in Slots : GsThrottleDone(s)
    \/ EsFinishSleepDone
    \/ EsChallenge
    \/ EsChallengeDone(TRUE)
    \/ EsStreamEnd("closed")
    \/ EsBackoffDone

\* The game stream has delivered a record whose move list ends in a mate:
\* the board of the current game is over.
MateSeen == game_board # NoBoard /\ IsGameOver(game_board)

\* The control stream delivers the gameFinish event of the game, once and
\* after the game stream has delivered the mate.
ScenarioFinish ==
    \E g \in GameIds, w \in Colors :
        MateSeen /\ game_history[g] = NoRow /\ EsGameFinish(g, w)

NextScenario == ScenarioSteps \/ ScenarioFinish

\* The event loop runs the tasks that are ready, the engine answers and the
\* sleeps end; when the server sends the gameFinish event is left open.
SpecScenario ==
    /\ InitScenario
    /\ [][NextScenario]_vars
    /\ WF_vars(ScenarioSteps)
    /\ WF_vars(EsFinishSleepDone)

SpecStats == InitStats /\ [][Next]_vars

SpecBoard == InitBoard /\ [][Next]_vars

\* asyncio.sleep returns once its delay has passed: the backoff timer of a
\* control-stream task that is not cancelled fires.
SpecReconnect == InitReconnect /\ [][Next]_vars /\ WF_vars(EsBackoffDone)

\* The stop task is an asyncio task of its own, so it runs once scheduled;
\* abort_game, resign_game, the wait for the cancelled tasks, engine.stop
\* and client.close are each awaited under asyncio.wait_for, so each of them
\* ends: with its result, with an exception or with the timeout.
SpecStop ==
    /\ InitStop
    /\ [][Next]_vars
    /\ WF_vars(StopBegin)
    /\ WF_vars(\E res \in {"ok", "rejected", "error"} : StopAbort(res))
    /\ WF_vars(StopResign)
    /\ WF_vars(CleanupFinish)

SpecDraw == InitDraw /\ [][Next]_vars

SpecNdjson == InitNdjson /\ [][NextNdjson]_vars

SpecQuiet == InitQuiet /\ [][NextNdjson]_vars

SpecTiming == InitTiming /\ [][NextTiming]_vars

SpecBoot == InitBoot /\ [][NextBoot]_vars

(* ------------------------------ properties ----------------------------- *)
\* The tests of _maybe_make_move hold for the state make_move is called in.
SubmitAllowed ==
    /\ current_game_id # None
    /\ game_board # NoBoard
    /\ ~IsGameOver(game_board)
    /\ Turn(game_board) = our_color

\* C1: a move is sent to the server only when, at the time it is sent, the
\* game is still the current one and it is the bot's turn, also when the
\* engine call or the throttle delay began before the game ended.
C1_NoStaleSubmit ==
    [][Len(submitted') > Len(submitted) => SubmitAllowed]_vars

\* The games with a row in the game history.
Recorded == {g \in GameIds : game_history[g] # NoRow}

\* C2: every finished game that is not aborted is counted once:
\* games_played is the number of games recorded, also when a gameFinish
\* event is delivered again.
C2_CountedOnce == stats.games_played = Cardinality(Recorded)

\* The handler steps that process the end of an aborted game: gameFinish of
\* the control stream and the aborted gameState of the game stream.
AbortHandled ==
    \/ \E g \in GameIds, w \in Colors \cup {None} :
          EsGameFinish(g, w) /\ srv[g] \in AbortStatuses
    \/ \E s \in Slots, ms \in MoveListsUpTo(cfg.maxPly), st \in AbortStatuses :
          GsGameState(s, ms, st)

\* C3: a game that ends aborted or noStart is never recorded: the
\* gameFinish handler and the abort handler of the game stream leave the
\* statistics and the game history as they are, and no aborted game has a
\* row in the history.
C3_AbortNotRecorded ==
    /\ [](\A g \in GameIds : srv[g] \in AbortStatuses => g \notin Recorded)
    /\ [][AbortHandled => UNCHANGED <<stats, game_history>>]_vars

\* Both handlers have processed an abort and sleep before they seek again,
\* and nothing was counted.
C3_Witness ==
    /\ esPc = "fin_sleep"
    /\ \E s \in Slots : gs[s].pc = "abort_sleep"
    /\ \E g \in GameIds : srv[g] \in AbortStatuses
    /\ stats.games_played = 0

\* The game-stream tasks alive.
LiveStreams == {s \in Slots : Alive(s)}

\* C4: at most one game-stream task is alive at any moment, also when a
\* gameStart arrives while a game is played.
C4_OneGameStream == Cardinality(LiveStreams) <= 1

\* C5: after a record with a terminal status was read from a game stream,
\* no engine move is asked for or sent by the task of that stream.
C5_EndedAbsorbing ==
    \A s \in Slots : gs[s].sawTerminal => s \notin Thinking

\* A gameState record of a game in play whose move list does not extend
\* the accepted one.
NonExtension ==
    \E s \in Slots, ms \in MoveListsUpTo(cfg.maxPly),
       st \in {"started"} \cup EndStatuses :
          GsGameState(s, ms, st) /\ ~IsPrefix(move_history, ms)

\* C6: a gameState record whose move list is not an extension of the
\* accepted move list is rejected: history and board stay as they are, and
\* the history never gets shorter.
C6_NonExtensionRejected ==
    [][NonExtension => UNCHANGED <<move_history, game_board>>]_vars

EsStreamPcs ==
    {"connecting", "read", "buffered", "fin_sleep", "fin_seek", "challenge"}

\* C8: while the bot runs, a control stream that ends (normally, by a
\* transport error or by an error response) takes _run_event_stream to the
\* backoff wait, the wait ends, and a new stream_events call follows it.
C8_StreamEndNotFatal ==
    /\ [][/\ (is_running' /\ esPc \in EsStreamPcs /\ esPc' \notin EsStreamPcs)
                => esPc' = "backoff"
          /\ (is_running' /\ esPc = "backoff" /\ esPc' # "backoff")
                => esPc' = "connecting"]_vars
    /\ ((esPc = "backoff") ~> (esPc = "connecting" \/ ~is_running))

\* A stream_events call that follows two failed ones, the bot running.
C8_Witness ==
    /\ esPc = "connecting"
    /\ is_running
    /\ Len(waits) = 2

\* The i-th delay of the sequence 1, 2, 4, 8, 16, 30, 30, ...
DelayAt(i) == Min(2 ^ (i - 1), max_reconnect_delay)

\* C9: the i-th wait before a reconnect lasts min(2^(i-1), 30) seconds.
C9_BackoffSequence ==
    \A i \in 1 .. Len(waits) : waits[i] = DelayAt(i)

\* Seven waits were started, the last two at the cap.
C9_Witness ==
    /\ Len(waits) >= 7
    /\ waits[6] = max_reconnect_delay
    /\ waits[7] = max_reconnect_delay

\* C10: the wait that follows a reconnected control stream that delivered
\* an event lasts 1 second.
C10_DelayReset ==
    (esPc = "backoff" /\ esDelivered /\ Len(waits) >= 2) =>
        waits[Len(waits)] = 1

\* C11: once is_running is false, _run_event_stream starts no call of
\* stream_events: every step that takes the control-stream task into a
\* stream_events call is taken with is_running true, also the step that
\* follows a backoff sleep.
C11_NoReconnectAfterStop ==
    [][(esPc # "connecting" /\ esPc' = "connecting") => is_running]_vars

\* The stop came while the control-stream task sleeps before a reconnect:
\* the run flag is cleared and the task is still in its backoff sleep.
C11_Witness ==
    /\ esPc = "backoff"
    /\ ~is_running
    /\ stopPc \in {"abort", "resign"}

\* The causes of a stream end that are transport errors.
TransportErrors == StreamEndCauses \ {"closed"}

\* C12: when a game stream drops by a transport error while the bot runs,
\* _run_game_stream logs "Game stream error", and its task ends without a
\* new stream_game call.
C12_GameStreamDropReported ==
    [][\A s \in Slots, cause \in TransportErrors :
          (GsStreamEnd(s, cause) /\ is_running) =>
              /\ last_report' = "Game stream error"
              /\ ~Alive(s)']_vars

\* C13: the gameFinish handler of a game that ended with any terminal
\* status schedules the stop and does not go on to the pause before
\* _seek_game when stop_after_game is set; when the flag is not set and the
\* bot runs, it goes on to that pause and the seek.
C13_StopAfterGame ==
    [][\A g \in GameIds, w \in Colors \cup {None} :
          EsGameFinish(g, w) =>
              IF stop_after_game
              THEN stopPc' # "none" /\ esPc' # "fin_sleep"
              ELSE is_running => esPc' = "fin_sleep"]_vars

\* C14: a stop with a game in flight first calls abort_game; resign_game
\* is called exactly when abort_game was called and answered with a
\* rejection: never after an accepted abort, never after an abort that
\* raised or timed out, never without an abort before it.
C14_ResignIffAbortRejected ==
    /\ [](\A i \in 1 .. Len(stop_calls) :
            /\ (stop_calls[i] = "abort") => i = 1
            /\ (stop_calls[i] = "resign") =>
                   (i = 3 /\ stop_calls[2] = "rejected" /\ stop_calls[1] = "abort")
            /\ (stop_calls[i] = "rejected") =>
                   (i < Len(stop_calls) /\ stop_calls[i + 1] = "resign"))
    /\ [][(StopBegin /\ current_game_id # None /\ lichess_client) =>
             stop_calls' = << "abort" >>]_vars

\* The abort of the game in flight was rejected and the resignation is sent.
C14_Witness ==
    /\ stopPc = "resign"
    /\ stop_calls = << "abort", "rejected", "resign" >>

\* The controller is stopped: the stop task has ended, the run flag is
\* cleared, the engine and the client are released.
Stopped ==
    /\ stopPc = "done"
    /\ ~is_running
    /\ ~engine
    /\ ~lichess_client

\* C15: a stop that was requested always leads to the stopped controller,
\* whatever abort_game and resign_game answer (an acceptance, a rejection,
\* an exception or a timeout).
C15_StopTerminates == (stopPc = "begin") ~> Stopped

\* The controller stopped although the abort of the game in flight raised
\* or timed out.
C15_Witness ==
    /\ Stopped
    /\ stop_calls = << "abort", "error" >>

\* The stop task has begun and the controller is not yet stopped.
StopInProgress == stopPc \in {"abort", "resign", "cleanup_wait"}

\* C16: no move is sent to the server while a stop is in progress: the
\* tasks that send moves are cancelled before abort_game is awaited.
C16_NoSubmitWhileStopping ==
    [][Len(submitted') > Len(submitted) => ~StopInProgress]_vars

\* engine.start() raises, or get_account raises (the token is rejected).
StartRejected == StartEngine(FALSE) \/ StartAccount(FALSE)

\* The state a failed start leaves: not running, engine and client
\* released, no control-stream task, no seek, the failure reported.
StartAborted ==
    /\ ~is_running
    /\ ~engine
    /\ ~lichess_client
    /\ esPc = "none"
    /\ seeks = {}
    /\ seek_task = NoTask
    /\ last_report = "Failed to start bot"

\* C17: a start whose engine does not start or whose token is rejected
\* ends as a failed start; a failed start leaves the bot not running, with
\* no control stream, no seek, the engine and the client released and the
\* error reported; and it stays failed: the start is not tried again.
C17_StartFailure ==
    /\ [][StartRejected => startPc' = "failed"]_vars
    /\ [](startPc = "failed" => StartAborted)
    /\ [][startPc = "failed" => startPc' = "failed"]_vars

\* A start has failed and left the controller stopped.
C17_Witness ==
    /\ startPc = "failed"
    /\ StartAborted
    /\ stopPc = "none"

\* What the handlers of the two streams write.
handlerVars == <<current_game_id, our_color, game_board, move_history, stats,
                 game_history, seeks, seek_task, submitted>>

\* C18: a protocol-error line (bytes that are no JSON text, or a record of
\* an unknown type) read while no stop is requested leaves the stream open,
\* waiting for the next line, and runs no handler.
C18_ProtocolErrorDropped ==
    [][/\ \A kind \in ProtocolErrors :
             (EsProtocolLine(kind) /\ ~stopping) =>
                 (esPc' = "read" /\ UNCHANGED <<handlerVars, gs>>)
       /\ \A s \in Slots, kind \in ProtocolErrors :
             (GsProtocolLine(s, kind) /\ ~stopping) =>
                 (gs' = gs /\ UNCHANGED handlerVars)]_vars

\* C19: a transport error during a read of the control stream reaches the
\* consumer of _stream_ndjson as an error: _run_event_stream reports
\* "Event stream error", and not the "Event stream ended" of a stream the
\* remote closed.
C19_TransportErrorSignalled ==
    [][\A cause \in TransportErrors :
          (EsStreamEnd(cause) /\ is_running) =>
              last_report' = "Event stream error"]_vars

\* _stream_ndjson yields a record and its consumer runs the handler of it.
RecordYielded ==
    \/ \E g \in GameIds, c \in Colors : EsGameStart(g, c)
    \/ \E g \in GameIds, w \in Colors \cup {None} : EsGameFinish(g, w)
    \/ EsChallenge
    \/ \E s \in Slots, ms \in MoveListsUpTo(cfg.maxPly),
          st \in {"started"} \cup TerminalStatuses :
             GsGameFull(s, ms, st) \/ GsGameState(s, ms, st)

\* C20: once request_stop has set the stop flag, no record is yielded by
\* _stream_ndjson: no handler of a stream runs for a record.
C20_NoYieldAfterStop ==
    [][RecordYielded => ~stopping]_vars

\* C21: once the stop flag is set, the read loop of _stream_ndjson ends even
\* if the remote sends no byte: the flag is looked at every StopCheckPeriod
\* seconds whether data arrives or not, so the loop is not still in its
\* read more than StopCheckPeriod seconds after the flag was set.
C21_StopSeenWithoutData ==
    (rd.stopping /\ rd.sinceStop > StopCheckPeriod) => rd.pc # "read"

\* The bytes _stream_ndjson has read so far.
Received == SubSeq(rd.stream, 1, rd.pos)

\* The lines of a byte sequence that end in a newline, in order; cur is the
\* line being collected.
RECURSIVE LinesOf(_, _)
LinesOf(bytes, cur) ==
    IF bytes = << >> THEN << >>
    ELSE IF Head(bytes) = Newline THEN <<cur>> \o LinesOf(Tail(bytes), << >>)
    ELSE LinesOf(Tail(bytes), Append(cur, Head(bytes)))

\* The records of a sequence of lines: the texts of those that are UTF-8,
\* not empty and valid JSON.
RECURSIVE RecordsOf(_)
RecordsOf(lines) ==
    IF lines = << >> THEN << >>
    ELSE IF Decodable(Head(lines)) /\ IsJson(Strip(Head(lines)))
         THEN <<Strip(Head(lines))>> \o RecordsOf(Tail(lines))
    ELSE RecordsOf(Tail(lines))

\* C23: for every byte stream and every split of it into chunks, whenever
\* _stream_ndjson awaits the next chunk or has ended otherwise than by the
\* stop flag, the records it has yielded are exactly the non-empty,
\* newline-terminated, valid-JSON lines of the bytes it has read, in their
\* order, each once.
C23_YieldsValidLines ==
    (\/ rd.pc = "read"
     \/ rd.pc = "raised"
     \/ rd.pc = "done" /\ rd.ended # "stopped")
        => rd.yielded = RecordsOf(LinesOf(Received, << >>))

\* The smaller and the larger of two numbers.
Lower(a, b) == IF a <= b THEN a ELSE b
Upper(a, b) == IF a <= b THEN b ELSE a

\* C24: every engine request of _maybe_make_move (the time settings do not
\* change between the request and the end of the run) carries a search-time
\* cap, and the cap is the configured maximum of the tier of its move number:
\* the opening range for moves 1 to OpeningMoves, the midgame range after;
\* the sampled target delay lies between the minimum and the maximum of
\* that tier.
C24_CapAndTarget ==
    plan.request.move_number > 0 =>
        LET n == plan.request.move_number
            lo == IF n <= OpeningMoves THEN plan.opening_min
                  ELSE plan.midgame_min
            hi == IF n <= OpeningMoves THEN plan.opening_max
                  ELSE plan.midgame_max
        IN /\ plan.request.time # {}
           /\ plan.request.time = {hi}
           /\ plan.request.target >= Lower(lo, hi)
           /\ plan.request.target <= Upper(lo, hi)

\* A move after the opening is timed with the midgame range, which differs
\* from the opening range, and its target is strictly inside it.
C24_Witness ==
    /\ plan.pc = "running"
    /\ plan.request.move_number > OpeningMoves
    /\ plan.midgame_max # plan.opening_max
    /\ plan.request.time = {plan.midgame_max}
    /\ plan.request.target > plan.midgame_min
    /\ plan.request.target < plan.midgame_max

\* C26: the game id make_move is called with is the game id that was
\* current when the engine request of the same _maybe_make_move call was
\* made.
C26_SubmitToRequestedGame ==
    \A i \in 1 .. Len(submitted) : submitted[i].gid = submitted[i].req

\* C25: a gameFinish event that names no winner is recorded as a draw, also
\* when our_color was reset before the event is handled.
C25_NoWinnerIsDraw ==
    [][\A g \in GameIds :
          (EsGameFinish(g, None) /\ ~IsAbortStatus(srv[g])) =>
              game_history'[g].result = "draw"]_vars

\* C27: at most one move is submitted for a position of a game, also when
\* a record with the same move list is delivered again.
C27_OneSubmitPerPosition ==
    \A i, j \in 1 .. Len(submitted) :
        (i < j /\ submitted[i].stream = submitted[j].stream) =>
            submitted[i].ply # submitted[j].ply

\* C28: at most one seek is outstanding, and seek_task refers to it: the
\* two reports of an abort, gameState on the game stream and gameFinish on
\* the control stream, create one seek between them.
C28_OneSeek ==
    /\ Cardinality(seeks) <= 1
    /\ seeks # {} => seeks = {seek_task}

\* C29: a gameFinish event for a game other than the current one leaves
\* current_game_id, our_color, game_board and the statistics unchanged.
C29_ForeignFinishIgnored ==
    [][\A g \in GameIds, w \in Colors \cup {None} :
          (EsGameFinish(g, w) /\ current_game_id # None
                              /\ current_game_id # g) =>
              UNCHANGED <<current_game_id, our_color, game_board,
                          stats>>]_vars

\* C30: a start request made while an earlier start is in progress or the
\* bot is running creates no second engine process, no second client and
\* no second control-stream task: there is never more than one of each.
C30_SingleStart ==
    /\ Cardinality(boot.procs) <= 1
    /\ Cardinality(boot.clients) <= 1
    /\ Cardinality(boot.es) <= 1

\* The controller is seeking with the statistics of one game recorded.
SeekingAfterOneGame ==
    /\ stats.games_played = 1
    /\ seek_task # NoTask
    /\ seek_task \in seeks

FinishHandled == esPc \in {"fin_sleep", "fin_seek"}

====
